---- MODULE Spec2Model ----
(***************************************************************************)
(* QueueCTL (src/queuectl/queuectl.py): a job queue kept in one SQLite     *)
(* database (tables jobs, dlq, config) that worker processes poll.         *)
(*                                                                         *)
(* The model keeps the store at statement granularity.  The connection is  *)
(* opened with isolation_level=None (line 95), so sqlite3 never opens a    *)
(* transaction by itself and `with conn:` finds none to commit: every      *)
(* statement outside next_job_claim's explicit BEGIN IMMEDIATE .. COMMIT   *)
(* commits alone.  SQLite admits one writer at a time; `lock` is that      *)
(* writer lock.                                                            *)
(*                                                                         *)
(* Timestamps are integers (the code compares ISO-8601 strings produced by *)
(* one formatter).  The columns updated_at, timeout and failed_at are not  *)
(* kept: no modelled statement reads them.                                 *)
(***************************************************************************)
EXTENDS Integers, FiniteSets, Sequences, TLC

VARIABLES
    jobs,      \* table jobs: id -> row
    dlq,       \* table dlq: id -> entry
    config,    \* table config
    now,       \* wall clock, utcnow_iso()
    lock,      \* the process holding SQLite's writer lock, or NULL
    pc,        \* worker -> position in worker_loop
    row,       \* worker -> the row next_job_claim selected (as read), or NoRow
    cnow,      \* worker -> the `now` local of the running store function
    base,      \* worker -> fail_or_retry_job's local `base`
    stop,      \* worker -> _STOP_REQUESTED of that process
    cli,       \* the cmd_dlq_retry process: its position and the dlq row it read
    nEnq,      \* enqueue commands run so far
    nRetry,    \* dlq retry commands run so far
    out,       \* how the last enqueue and the last dlq retry command ended
    runs       \* id -> run_command calls for the jobs row of that id (0 when it has none)

vars == <<jobs, dlq, config, now, lock, pc, row, cnow, base, stop, cli, nEnq, nRetry, out, runs>>

(* ------------------------------ bounds -------------------------------- *)

\* The clock runs freely up to MaxTime, and beyond it while a pending row waits.
MaxTime == 1
\* Enqueue commands in one run.
MaxEnq == 2
\* dlq retry commands in one run.
MaxDlqRetry == 1

Workers == {"w1", "w2"}
Ids == {"a", "b"}
Commands == {"true", "false"}

NULL == "NULL"
NoRow == [id |-> NULL]
EmptyTable == [i \in {} |-> NoRow]

(* ------------------------------ store --------------------------------- *)

\* DEFAULT_CONFIG, inserted by db_connect when the keys are absent.
DEFAULT_CONFIG == [max_retries |-> 3, backoff_base |-> 2]

\* CHECK(state IN (...)) of the jobs table.
States == {"pending", "processing", "completed", "failed", "dead"}

Put(t, i, r) == [x \in (DOMAIN t) \cup {i} |-> IF x = i THEN r ELSE t[x]]
Del(t, i) == [x \in (DOMAIN t) \ {i} |-> t[x]]

\* UPDATE jobs SET ... WHERE id=?: no row, no change.
UpdateWhereId(t, i, r) == IF i \in DOMAIN t THEN [t EXCEPT ![i] = r] ELSE t

\* base ** attempts, integer exponentiation
RECURSIVE Pow(_, _)
Pow(b, e) == IF e <= 0 THEN 1 ELSE b * Pow(b, e - 1)

\* A statement that writes waits for the writer lock.
LockFree == lock = NULL

Release(w) == IF lock = w THEN NULL ELSE lock

(* ----------------------------- enqueue -------------------------------- *)

\* A job spec of the ingest format: id and command, and the optional keys the
\* INSERT reads, each Absent or Some(value).
Absent == {}
Some(v) == {v}

JobSpec(i, c, st, at, mr, cr, ra, pr) ==
    [id |-> i, command |-> c, state |-> st, attempts |-> at, max_retries |-> mr,
     created_at |-> cr, run_at |-> ra, priority |-> pr]

\* The specs enqueued under IngestSpec and PollSpec: the required keys alone
\* or with max_retries, and specs for each further optional key.
JobSpecs ==
    { JobSpec("a", "false", Absent, Absent, mr, Absent, Absent, Absent) : mr \in {Some(0), Some(1)} }
    \cup { JobSpec(i, "true", Absent, Absent, Absent, Absent, Absent, Absent) : i \in Ids }
    \cup { JobSpec("a", "true", Some(st), Absent, Absent, Absent, Absent, Absent) :
            st \in {"processing", "completed"} }
    \cup { JobSpec("a", "false", Absent, Some(2), Some(0), Absent, Absent, Absent) }
    \cup { JobSpec("a", "false", Absent, Some(1), Some(2), Absent, Absent, Absent) }
    \cup { JobSpec("b", "true", Absent, Absent, Absent, Absent, Absent, Some(1)) }
    \cup { JobSpec("b", "true", Absent, Absent, Absent, Absent, Some(ra), Absent) :
            ra \in {0, MaxTime + 1} }
    \cup { JobSpec("b", "true", Absent, Absent, Absent, Some(MaxTime), Absent, Absent) }

\* job.setdefault(...) / job.get(...)
Default(v, d) == IF v = Absent THEN d ELSE CHOOSE x \in v : TRUE

\* The row enqueue_job inserts for spec s.
NewRow(s) ==
    [id          |-> s.id,
     command     |-> s.command,
     state       |-> Default(s.state, "pending"),
     attempts    |-> Default(s.attempts, 0),
     max_retries |-> Default(s.max_retries, config.max_retries),
     created_at  |-> Default(s.created_at, now),
     run_at      |-> Default(s.run_at, now),
     last_error  |-> NULL,
     priority    |-> Default(s.priority, 100),
     worker_id   |-> NULL]

\* How a command of the CLI ended: nothing ran yet, or what it printed or raised.
NoOutcome == [enqueue |-> "none", dlq_retry |-> "none"]

\* An enqueue_job whose statement is INSERT OR REPLACE.
EnqueueOrReplace(s) ==
    /\ nEnq < MaxEnq
    /\ LockFree
    /\ nEnq' = nEnq + 1
    /\ jobs' = Put(jobs, s.id, NewRow(s))
    /\ out' = [out EXCEPT !.enqueue = "Enqueued"]
    /\ runs' = [runs EXCEPT ![s.id] = 0]
    /\ UNCHANGED <<dlq, config, now, lock, pc, row, cnow, base, stop, cli, nRetry>>

\* enqueue_job: one INSERT; the primary key rejects an id already in jobs with
\* sqlite3.IntegrityError, which cmd_enqueue does not catch.
Enqueue(s) ==
    /\ nEnq < MaxEnq
    /\ LockFree
    /\ nEnq' = nEnq + 1
    /\ IF s.id \in DOMAIN jobs
       THEN /\ jobs' = jobs
            /\ out' = [out EXCEPT !.enqueue = "IntegrityError"]
            /\ runs' = runs
       ELSE /\ jobs' = Put(jobs, s.id, NewRow(s))
            /\ out' = [out EXCEPT !.enqueue = "Enqueued"]
            /\ runs' = [runs EXCEPT ![s.id] = 0]
    /\ UNCHANGED <<dlq, config, now, lock, pc, row, cnow, base, stop, cli, nRetry>>

(* ------------------------- next_job_claim ----------------------------- *)

\* WHERE state='pending' AND run_at<=?
Eligible(t) == {i \in DOMAIN jobs : jobs[i].state = "pending" /\ jobs[i].run_at <= t}

\* ORDER BY created_at ASC alone.
BeforeByCreatedAt(r1, r2) == r1.created_at < r2.created_at

\* ORDER BY priority ASC, created_at ASC
Before(r1, r2) ==
    \/ r1.priority < r2.priority
    \/ r1.priority = r2.priority /\ r1.created_at < r2.created_at

\* The rows LIMIT 1 may return: those no eligible row sorts before.
Candidates(t) == {i \in Eligible(t) : \A j \in Eligible(t) : ~Before(jobs[j], jobs[i])}

\* A deferred BEGIN: the transaction starts without the writer lock.
BeginDeferred(w) ==
    /\ pc[w] = "begin"
    /\ pc' = [pc EXCEPT ![w] = "select"]
    /\ UNCHANGED <<jobs, dlq, config, now, lock, row, cnow, base, stop, cli, nEnq, nRetry, out, runs>>

\* conn.execute("BEGIN IMMEDIATE"): takes the writer lock, waiting while
\* another process holds it.
BeginImmediate(w) ==
    /\ pc[w] = "begin"
    /\ LockFree
    /\ lock' = w
    /\ pc' = [pc EXCEPT ![w] = "select"]
    /\ UNCHANGED <<jobs, dlq, config, now, row, cnow, base, stop, cli, nEnq, nRetry, out, runs>>

\* SELECT * FROM jobs WHERE ... ORDER BY ... LIMIT 1, with the `now` read at
\* the function's entry; if not row: COMMIT; return None (the loop then sleeps
\* and tests the flag again).
ClaimSelect(w) ==
    /\ pc[w] = "select"
    /\ IF Candidates(cnow[w]) = {}
       THEN /\ row' = [row EXCEPT ![w] = NoRow]
            /\ lock' = Release(w)
            /\ pc' = [pc EXCEPT ![w] = "loop"]
            /\ cnow' = [cnow EXCEPT ![w] = 0]
       ELSE /\ \E i \in Candidates(cnow[w]) : row' = [row EXCEPT ![w] = jobs[i]]
            /\ lock' = lock
            /\ pc' = [pc EXCEPT ![w] = "update"]
            /\ cnow' = cnow
    /\ UNCHANGED <<jobs, dlq, config, now, base, stop, cli, nEnq, nRetry, out, runs>>

\* UPDATE jobs SET state='processing', worker_id=? WHERE id=? AND state='pending':
\* the rows it changes.
ClaimRowcount(w) ==
    IF row[w].id \in DOMAIN jobs /\ jobs[row[w].id].state = "pending" THEN 1 ELSE 0

\* The UPDATE, COMMIT, and return row if updated.rowcount == 1 else None.  A
\* process killed between the UPDATE and the COMMIT leaves the table as one
\* killed before the UPDATE does.
ClaimUpdate(w) ==
    /\ pc[w] = "update"
    /\ lock' = Release(w)
    /\ cnow' = [cnow EXCEPT ![w] = 0]
    /\ IF ClaimRowcount(w) = 1
       THEN /\ jobs' = [jobs EXCEPT ![row[w].id].state = "processing",
                                   ![row[w].id].worker_id = w]
            /\ pc' = [pc EXCEPT ![w] = "run"]
            /\ row' = row
       ELSE /\ jobs' = jobs
            /\ pc' = [pc EXCEPT ![w] = "loop"]
            /\ row' = [row EXCEPT ![w] = NoRow]
    /\ UNCHANGED <<dlq, config, now, base, stop, cli, nEnq, nRetry, out, runs>>

(* ----------------------------- worker --------------------------------- *)

\* while not _STOP_REQUESTED.is_set(): the test, and next_job_claim's entry
\* (now = utcnow_iso()).
WhileTest(w) ==
    /\ pc[w] = "loop"
    /\ IF stop[w]
       THEN /\ pc' = [pc EXCEPT ![w] = "exited"]
            /\ cnow' = cnow
       ELSE /\ pc' = [pc EXCEPT ![w] = "begin"]
            /\ cnow' = [cnow EXCEPT ![w] = now]
    /\ UNCHANGED <<jobs, dlq, config, now, lock, row, base, stop, cli, nEnq, nRetry, out, runs>>

\* The exit codes run_command can return for a command.
ExitCodes(c) == IF c = "true" THEN {0} ELSE {1}

\* A loop that tests the flag when the command returns and leaves at once.
RunCommandThenBreak(w) ==
    /\ pc[w] = "run"
    /\ pc' = [pc EXCEPT ![w] = IF stop[w] THEN "exited"
                               ELSE IF row[w].command = "true" THEN "complete"
                               ELSE IF row[w].attempts + 1 > row[w].max_retries THEN "dlq_insert"
                               ELSE "retry"]
    /\ base' = [base EXCEPT ![w] = config.backoff_base]
    /\ cnow' = [cnow EXCEPT ![w] = now]
    /\ runs' = [runs EXCEPT ![row[w].id] = @ + 1]
    /\ UNCHANGED <<jobs, dlq, config, now, lock, row, stop, cli, nEnq, nRetry, out>>

\* A fail_or_retry_job that branches on attempts >= max_retries.
RunCommandEarlyDlq(w) ==
    /\ pc[w] = "run"
    /\ \E rc \in ExitCodes(row[w].command) :
         IF rc = 0
         THEN /\ pc' = [pc EXCEPT ![w] = "complete"]
              /\ UNCHANGED <<base, cnow>>
         ELSE /\ base' = [base EXCEPT ![w] = config.backoff_base]
              /\ cnow' = [cnow EXCEPT ![w] = now]
              /\ pc' = [pc EXCEPT ![w] =
                    IF row[w].attempts + 1 >= row[w].max_retries THEN "dlq_insert" ELSE "retry"]
    /\ runs' = [runs EXCEPT ![row[w].id] = @ + 1]
    /\ UNCHANGED <<jobs, dlq, config, now, lock, row, stop, cli, nEnq, nRetry, out>>

\* run_command returns; rc == 0 leads to complete_job, any other rc to
\* fail_or_retry_job, whose lines 184-189 read attempts, max_retries, base and
\* now and branch on attempts > max_retries.
RunCommand(w) ==
    /\ pc[w] = "run"
    /\ \E rc \in ExitCodes(row[w].command) :
         IF rc = 0
         THEN /\ pc' = [pc EXCEPT ![w] = "complete"]
              /\ UNCHANGED <<base, cnow>>
         ELSE /\ base' = [base EXCEPT ![w] = config.backoff_base]
              /\ cnow' = [cnow EXCEPT ![w] = now]
              /\ pc' = [pc EXCEPT ![w] =
                    IF row[w].attempts + 1 > row[w].max_retries THEN "dlq_insert" ELSE "retry"]
    /\ runs' = [runs EXCEPT ![row[w].id] = @ + 1]
    /\ UNCHANGED <<jobs, dlq, config, now, lock, row, stop, cli, nEnq, nRetry, out>>

\* complete_job: UPDATE jobs SET state='completed', worker_id=NULL WHERE id=?
CompleteJob(w) ==
    /\ pc[w] = "complete"
    /\ LockFree
    /\ jobs' = UpdateWhereId(jobs, row[w].id,
            [jobs[row[w].id] EXCEPT !.state = "completed", !.worker_id = NULL])
    /\ pc' = [pc EXCEPT ![w] = "loop"]
    /\ row' = [row EXCEPT ![w] = NoRow]
    /\ UNCHANGED <<dlq, config, now, lock, cnow, base, stop, cli, nEnq, nRetry, out, runs>>

\* The entry written to dlq: attempts - 1 of the incremented count.
DlqEntry(r) ==
    [id |-> r.id, command |-> r.command, attempts |-> (r.attempts + 1) - 1,
     max_retries |-> r.max_retries, last_error |-> "err"]

\* INSERT OR REPLACE INTO dlq(...)
DlqInsert(w) ==
    /\ pc[w] = "dlq_insert"
    /\ LockFree
    /\ dlq' = Put(dlq, row[w].id, DlqEntry(row[w]))
    /\ pc' = [pc EXCEPT ![w] = "dlq_delete"]
    /\ UNCHANGED <<jobs, config, now, lock, row, cnow, base, stop, cli, nEnq, nRetry, out, runs>>

\* DELETE FROM jobs WHERE id=?
DlqDelete(w) ==
    /\ pc[w] = "dlq_delete"
    /\ LockFree
    /\ jobs' = Del(jobs, row[w].id)
    /\ pc' = [pc EXCEPT ![w] = "loop"]
    /\ row' = [row EXCEPT ![w] = NoRow]
    /\ cnow' = [cnow EXCEPT ![w] = 0]
    /\ base' = [base EXCEPT ![w] = 0]
    /\ runs' = [runs EXCEPT ![row[w].id] = 0]
    /\ UNCHANGED <<dlq, config, now, lock, stop, cli, nEnq, nRetry, out>>

\* A retry UPDATE that leaves the state column as it is.
RetryUpdateKeepsState(w) ==
    /\ pc[w] = "retry"
    /\ LockFree
    /\ jobs' = UpdateWhereId(jobs, row[w].id,
            [jobs[row[w].id] EXCEPT !.attempts = row[w].attempts + 1,
                                    !.run_at = cnow[w] + Pow(base[w], row[w].attempts + 1),
                                    !.last_error = "err",
                                    !.worker_id = NULL])
    /\ pc' = [pc EXCEPT ![w] = "loop"]
    /\ row' = [row EXCEPT ![w] = NoRow]
    /\ cnow' = [cnow EXCEPT ![w] = 0]
    /\ base' = [base EXCEPT ![w] = 0]
    /\ UNCHANGED <<dlq, config, now, lock, stop, cli, nEnq, nRetry, out, runs>>

\* A retry UPDATE whose delay is base ** row["attempts"], the count before the
\* increment.
RetryUpdateOldCount(w) ==
    /\ pc[w] = "retry"
    /\ LockFree
    /\ jobs' = UpdateWhereId(jobs, row[w].id,
            [jobs[row[w].id] EXCEPT !.state = "pending",
                                    !.attempts = row[w].attempts + 1,
                                    !.run_at = cnow[w] + Pow(base[w], row[w].attempts),
                                    !.last_error = "err",
                                    !.worker_id = NULL])
    /\ pc' = [pc EXCEPT ![w] = "loop"]
    /\ row' = [row EXCEPT ![w] = NoRow]
    /\ cnow' = [cnow EXCEPT ![w] = 0]
    /\ base' = [base EXCEPT ![w] = 0]
    /\ UNCHANGED <<dlq, config, now, lock, stop, cli, nEnq, nRetry, out, runs>>

\* UPDATE jobs SET state='pending', attempts=?, run_at=?, last_error=?,
\* worker_id=NULL WHERE id=?, with run_at = now + base ** attempts.
RetryUpdate(w) ==
    /\ pc[w] = "retry"
    /\ LockFree
    /\ jobs' = UpdateWhereId(jobs, row[w].id,
            [jobs[row[w].id] EXCEPT !.state = "pending",
                                    !.attempts = row[w].attempts + 1,
                                    !.run_at = cnow[w] + Pow(base[w], row[w].attempts + 1),
                                    !.last_error = "err",
                                    !.worker_id = NULL])
    /\ pc' = [pc EXCEPT ![w] = "loop"]
    /\ row' = [row EXCEPT ![w] = NoRow]
    /\ cnow' = [cnow EXCEPT ![w] = 0]
    /\ base' = [base EXCEPT ![w] = 0]
    /\ UNCHANGED <<dlq, config, now, lock, stop, cli, nEnq, nRetry, out, runs>>

Alive(w) == pc[w] \notin {"exited", "dead", "error"}

\* _handler: SIGINT or SIGTERM sets the flag, at any point of the loop.
Signal(w) ==
    /\ Alive(w)
    /\ ~stop[w]
    /\ stop' = [stop EXCEPT ![w] = TRUE]
    /\ UNCHANGED <<jobs, dlq, config, now, lock, pc, row, cnow, base, cli, nEnq, nRetry, out, runs>>

\* The process is killed: an open transaction is rolled back and its lock
\* released; no statement of the loop runs again.
Crash(w) ==
    /\ Alive(w)
    /\ pc' = [pc EXCEPT ![w] = "dead"]
    /\ lock' = Release(w)
    /\ row' = [row EXCEPT ![w] = NoRow]
    /\ cnow' = [cnow EXCEPT ![w] = 0]
    /\ base' = [base EXCEPT ![w] = 0]
    /\ UNCHANGED <<jobs, dlq, config, now, stop, cli, nEnq, nRetry, out, runs>>

\* A statement that needs the writer lock gives up after the connection's
\* timeout (line 95) with sqlite3.OperationalError "database is locked";
\* worker_loop catches nothing, so the process ends.
LockedError(w) ==
    /\ pc[w] \in {"begin", "complete", "dlq_insert", "dlq_delete", "retry"}
    /\ lock \notin {NULL, w}
    /\ pc' = [pc EXCEPT ![w] = "error"]
    /\ row' = [row EXCEPT ![w] = NoRow]
    /\ cnow' = [cnow EXCEPT ![w] = 0]
    /\ base' = [base EXCEPT ![w] = 0]
    /\ UNCHANGED <<jobs, dlq, config, now, lock, stop, cli, nEnq, nRetry, out, runs>>

\* One step of worker w's process.
WorkerStep(w) ==
    \/ WhileTest(w)
    \/ BeginImmediate(w)
    \/ ClaimSelect(w)
    \/ ClaimUpdate(w)
    \/ RunCommand(w)
    \/ CompleteJob(w)
    \/ DlqInsert(w)
    \/ DlqDelete(w)
    \/ RetryUpdate(w)

(* ------------------------------- CLI ---------------------------------- *)

\* No cmd_dlq_retry process runs.
CliIdle == [pc |-> "idle", row |-> NoRow, now |-> 0]

\* cmd_dlq_retry: SELECT * FROM dlq WHERE id=?; a missing id exits 1, a found
\* one goes on to now = utcnow_iso().
DlqRetrySelect(i) ==
    /\ cli.pc = "idle"
    /\ nRetry < MaxDlqRetry
    /\ nRetry' = nRetry + 1
    /\ IF i \in DOMAIN dlq
       THEN /\ cli' = [pc |-> "insert", row |-> dlq[i], now |-> now]
            /\ out' = out
       ELSE /\ cli' = CliIdle
            /\ out' = [out EXCEPT !.dlq_retry = "exit 1"]
    /\ UNCHANGED <<jobs, dlq, config, now, lock, pc, row, cnow, base, stop, nEnq, runs>>

\* The row cmd_dlq_retry writes for dlq row r at its time t.
PromotedRow(r, t) ==
    [id          |-> r.id,
     command     |-> r.command,
     state       |-> "pending",
     attempts    |-> 0,
     max_retries |-> r.max_retries,
     created_at  |-> t,
     run_at      |-> t,
     last_error  |-> NULL,
     priority    |-> 100,
     worker_id   |-> NULL]

\* INSERT OR REPLACE INTO jobs(...)
DlqRetryInsert ==
    /\ cli.pc = "insert"
    /\ LockFree
    /\ jobs' = Put(jobs, cli.row.id, PromotedRow(cli.row, cli.now))
    /\ cli' = [cli EXCEPT !.pc = "delete"]
    /\ runs' = [runs EXCEPT ![cli.row.id] = 0]
    /\ UNCHANGED <<dlq, config, now, lock, pc, row, cnow, base, stop, nEnq, nRetry, out>>

\* DELETE FROM dlq WHERE id=?, then print "Re-enqueued ..." and exit 0.
DlqRetryDelete ==
    /\ cli.pc = "delete"
    /\ LockFree
    /\ dlq' = Del(dlq, cli.row.id)
    /\ cli' = CliIdle
    /\ out' = [out EXCEPT !.dlq_retry = "Re-enqueued"]
    /\ UNCHANGED <<jobs, config, now, lock, pc, row, cnow, base, stop, nEnq, nRetry, runs>>

\* The cmd_dlq_retry process is killed between its statements.
CliKill ==
    /\ cli.pc # "idle"
    /\ cli' = CliIdle
    /\ UNCHANGED <<jobs, dlq, config, now, lock, pc, row, cnow, base, stop, nEnq, nRetry, out, runs>>

\* The values config set gives backoff_base.
BackoffBases == {1, 2}

\* cfg_set("backoff_base", v)
CfgSet(v) ==
    /\ LockFree
    /\ config.backoff_base # v
    /\ config' = [config EXCEPT !.backoff_base = v]
    /\ UNCHANGED <<jobs, dlq, now, lock, pc, row, cnow, base, stop, cli, nEnq, nRetry, out, runs>>

(* ------------------------------ clock --------------------------------- *)

\* A pending row waits for a later time.
Waiting == \E i \in DOMAIN jobs : jobs[i].state = "pending" /\ jobs[i].run_at > now

\* Wall-clock time advances.
Tick ==
    /\ now < MaxTime \/ Waiting
    /\ now' = now + 1
    /\ UNCHANGED <<jobs, dlq, config, lock, pc, row, cnow, base, stop, cli, nEnq, nRetry, out, runs>>

(* -------------------------- specification ----------------------------- *)

\* An initialised, empty store and workers entering worker_loop.
Init ==
    /\ jobs = EmptyTable
    /\ dlq = EmptyTable
    /\ config = DEFAULT_CONFIG
    /\ now = 0
    /\ lock = NULL
    /\ pc = [w \in Workers |-> "loop"]
    /\ row = [w \in Workers |-> NoRow]
    /\ cnow = [w \in Workers |-> 0]
    /\ base = [w \in Workers |-> 0]
    /\ stop = [w \in Workers |-> FALSE]
    /\ cli = CliIdle
    /\ nEnq = 0
    /\ nRetry = 0
    /\ out = NoOutcome
    /\ runs = [i \in Ids |-> 0]

\* The jobs the queue is fed under Spec: a command that fails, with no retry
\* or one, and commands that succeed under the configured max_retries.
CoreSpecs ==
    { JobSpec("a", "false", Absent, Absent, mr, Absent, Absent, Absent) : mr \in {Some(0), Some(1)} }
    \cup { JobSpec(i, "true", Absent, Absent, Absent, Absent, Absent, Absent) : i \in Ids }

\* Two workers, enqueue and dlq retry commands, store contention, the clock.
Next ==
    \/ \E w \in Workers : WorkerStep(w)
    \/ \E w \in Workers : LockedError(w)
    \/ \E s \in CoreSpecs : Enqueue(s)
    \/ \E i \in Ids : DlqRetrySelect(i)
    \/ DlqRetryInsert
    \/ DlqRetryDelete
    \/ Tick

Spec == Init /\ [][Next]_vars

\* One worker and every spec of JobSpecs, with dlq retry (run to its end or
\* killed) and config set.
IngestNext ==
    \/ WorkerStep("w1")
    \/ \E s \in JobSpecs : Enqueue(s)
    \/ \E i \in Ids : DlqRetrySelect(i)
    \/ DlqRetryInsert
    \/ DlqRetryDelete
    \/ CliKill
    \/ \E v \in BackoffBases : CfgSet(v)
    \/ Tick

\* Two workers racing for a queue fed by enqueue commands, with store
\* contention and the clock; no dlq retry command.
RaceNext ==
    \/ \E w \in Workers : WorkerStep(w)
    \/ \E w \in Workers : LockedError(w)
    \/ \E s \in CoreSpecs : Enqueue(s)
    \/ Tick

RaceSpec == Init /\ [][RaceNext]_vars

IngestSpec == Init /\ [][IngestNext]_vars

\* One worker polling a queue fed with every spec of JobSpecs, config set and
\* the clock; no dlq retry command.
PollNext ==
    \/ WorkerStep("w1")
    \/ \E s \in JobSpecs : Enqueue(s)
    \/ \E v \in BackoffBases : CfgSet(v)
    \/ Tick

PollSpec == Init /\ [][PollNext]_vars

\* Worker processes are scheduled again and again, and a statement waiting
\* for the writer lock gets it when the lock keeps coming free.
WorkersRun == \A w \in Workers : SF_vars(WorkerStep(w))

\* Workers that worker stop (SIGTERM) or SIGINT may signal at any point.
StopNext ==
    \/ \E w \in Workers : WorkerStep(w)
    \/ \E w \in Workers : Signal(w)
    \/ \E s \in CoreSpecs : Enqueue(s)
    \/ Tick

StopSpec == Init /\ [][StopNext]_vars /\ WorkersRun

\* The worker that is never killed and never signalled.
Survivor == "w1"

\* A finite set of jobs, a worker that stays and workers that may be killed;
\* time advances and no statement fails.
LiveNext ==
    \/ \E w \in Workers : WorkerStep(w)
    \/ \E w \in Workers \ {Survivor} : Crash(w)
    \/ \E s \in CoreSpecs : Enqueue(s)
    \/ Tick

LiveSpec == Init /\ [][LiveNext]_vars /\ WorkersRun /\ WF_vars(Tick)

\* Two workers and the dlq retry command, each of which may be killed at any
\* point; no statement fails.
CrashNext ==
    \/ \E w \in Workers : WorkerStep(w)
    \/ \E w \in Workers : Crash(w)
    \/ \E s \in CoreSpecs : Enqueue(s)
    \/ \E i \in Ids : DlqRetrySelect(i)
    \/ DlqRetryInsert
    \/ DlqRetryDelete
    \/ CliKill
    \/ Tick

CrashSpec == Init /\ [][CrashNext]_vars

(* ------------------------------ claims -------------------------------- *)

\* Worker w is inside next_job_claim's transaction with a selected row.
InClaim(w) == pc[w] = "update"

\* Worker w runs the command of the row its claim returned.
Executing(w) == pc[w] = "run"

\* No process is between the statements of a DLQ move or of a dlq retry.
Quiescent == (\A w \in Workers : pc[w] # "dlq_delete") /\ cli.pc # "delete"

\* C1: racing next_job_claim calls never hold the same selected row inside
\* their transactions at once, and a claim returns a row only on the step that
\* itself moves that row from pending to processing under the caller's id: one
\* pending row, at most one winner.
C1_ClaimExclusive ==
    /\ [](\A w1, w2 \in Workers :
            (w1 # w2 /\ InClaim(w1) /\ InClaim(w2)) => row[w1].id # row[w2].id)
    /\ [][\A w \in Workers :
            (pc[w] = "update" /\ pc'[w] = "run") =>
                /\ row[w].id \in DOMAIN jobs
                /\ jobs[row[w].id].state = "pending"
                /\ jobs'[row[w].id].state = "processing"
                /\ jobs'[row[w].id].worker_id = w]_vars

\* Both workers raced for the queue and each got a row of its own.
C1_Witness ==
    /\ Executing("w1") /\ Executing("w2")
    /\ row["w1"].id # row["w2"].id
    /\ jobs[row["w1"].id].worker_id = "w1"
    /\ jobs[row["w2"].id].worker_id = "w2"

\* C2: no two workers execute the same job id at the same time.
C2_OneWorkerPerJob ==
    \A w1, w2 \in Workers :
        (w1 # w2 /\ Executing(w1) /\ Executing(w2)) => row[w1].id # row[w2].id

\* C3: after every operation no job id is in both jobs and dlq.
C3_JobsDlqDisjoint == Quiescent => (DOMAIN jobs) \cap (DOMAIN dlq) = {}

\* C5: a row in state completed is never changed, removed or replaced.
C5_CompletedTerminal ==
    [][\A i \in DOMAIN jobs :
            jobs[i].state = "completed" => (i \in DOMAIN jobs' /\ jobs'[i] = jobs[i])]_vars

\* C4: a row is in state processing exactly when its worker_id is not null.
C4_WorkerIdIffProcessing ==
    \A i \in DOMAIN jobs : (jobs[i].state = "processing") <=> (jobs[i].worker_id # NULL)

\* C6: a DLQ entry of a job enqueued with attempts = 0 that failed every time
\* records max_retries + 1 attempts.
C6_DlqAttempts == \A i \in DOMAIN dlq : dlq[i].attempts = dlq[i].max_retries + 1

\* C7: every jobs row has attempts <= max_retries + 1, and the DLQ move of a
\* failure past max_retries ends with the row gone and a DLQ entry in place.
C7_AttemptsBounded ==
    /\ [](\A i \in DOMAIN jobs : jobs[i].attempts <= jobs[i].max_retries + 1)
    /\ [][\A w \in Workers :
            (pc[w] = "dlq_delete" /\ pc'[w] = "loop") =>
                (row[w].id \notin DOMAIN jobs' /\ row[w].id \in DOMAIN dlq')]_vars

\* C8: a worker whose shutdown flag is set gets no row from next_job_claim.
C8_NoClaimAfterStop ==
    [][\A w \in Workers : stop[w] => ~(pc[w] = "update" /\ pc'[w] = "run")]_vars

\* Worker w has left the loop through the flag test.
Exited(w) == pc[w] = "exited"

\* A jobs row in state processing carries worker w's id.
HoldsRow(w) == \E i \in DOMAIN jobs : jobs[i].state = "processing" /\ jobs[i].worker_id = w

\* C9: a worker that exits through graceful shutdown leaves no processing row
\* under its id, and a worker whose flag is set exits.
C9_GracefulShutdown ==
    /\ [](\A w \in Workers : Exited(w) => ~HoldsRow(w))
    /\ \A w \in Workers : stop[w] ~> Exited(w)

\* A worker whose flag was set while it held a job is between the two
\* statements of the DLQ move.
C9_Witness == \E w \in Workers : stop[w] /\ pc[w] = "dlq_delete" /\ HoldsRow(w)

\* The worker that claimed row i died holding it.
Orphaned(i) ==
    /\ jobs[i].state = "processing"
    /\ jobs[i].worker_id \in Workers
    /\ pc[jobs[i].worker_id] = "dead"

\* A command that always succeeds never reaches the DLQ.
SucceedingNotInDlq == \A i \in DOMAIN dlq : dlq[i].command # "true"

\* C10 as stated: with one worker that stays, every job ends completed or in
\* the DLQ (no jobs row stays in another state), and succeeding commands stay
\* out of the DLQ.
C10_AllJobsSettle ==
    /\ <>[](\A i \in DOMAIN jobs : jobs[i].state = "completed")
    /\ []SucceedingNotInDlq

\* C10 amended: every job ends completed, in the DLQ, or in state processing
\* under the id of a worker that died holding it.
C10_SettleUnlessOrphaned ==
    /\ <>[](\A i \in DOMAIN jobs : jobs[i].state = "completed" \/ Orphaned(i))
    /\ []SucceedingNotInDlq

\* All jobs were enqueued; one ended completed and one in the DLQ.
C10_Witness ==
    /\ nEnq = MaxEnq
    /\ DOMAIN jobs # {} /\ DOMAIN dlq # {}
    /\ \A i \in DOMAIN jobs : jobs[i].state = "completed"

\* C11: a dlq retry of an id found in the DLQ ends with a jobs row for that id
\* that is pending, has attempts 0, priority 100, run_at = the command's now,
\* no worker_id and the DLQ entry's command and max_retries, and with the DLQ
\* entry gone; a dlq retry of an id not in the DLQ exits 1 and changes neither
\* table.
C11_DlqRetryRestores ==
    /\ [][DlqRetryDelete =>
            /\ cli.row.id \in DOMAIN jobs'
            /\ jobs'[cli.row.id].state = "pending"
            /\ jobs'[cli.row.id].attempts = 0
            /\ jobs'[cli.row.id].priority = 100
            /\ jobs'[cli.row.id].run_at = cli.now
            /\ jobs'[cli.row.id].worker_id = NULL
            /\ jobs'[cli.row.id].command = cli.row.command
            /\ jobs'[cli.row.id].max_retries = cli.row.max_retries
            /\ cli.row.id \notin DOMAIN dlq']_vars
    /\ [][\A i \in Ids :
            (i \notin DOMAIN dlq /\ DlqRetrySelect(i)) =>
                (out'.dlq_retry = "exit 1" /\ jobs' = jobs /\ dlq' = dlq)]_vars

\* C12: an enqueue of an id that is already in jobs ends with an insertion
\* error and leaves every jobs row, the dlq table and the config table as
\* they were.
C12_DuplicateRejected ==
    [][\A s \in JobSpecs :
            (s.id \in DOMAIN jobs /\ Enqueue(s)) =>
                /\ out'.enqueue = "IntegrityError"
                /\ jobs' = jobs
                /\ dlq' = dlq
                /\ config' = config]_vars

\* An enqueue was rejected for the id of a row a worker holds.
C12_Witness ==
    /\ out.enqueue = "IntegrityError"
    /\ \E i \in DOMAIN jobs : jobs[i].state = "processing" /\ jobs[i].worker_id = "w1"

\* C13: a row a worker died holding stays as it is, processing under the dead
\* worker's id, in every later state, and no claim by another worker returns
\* it.
C13_OrphanStays ==
    /\ [][\A i \in DOMAIN jobs :
            Orphaned(i) => (i \in DOMAIN jobs' /\ jobs'[i] = jobs[i])]_vars
    /\ [][\A w \in Workers :
            (pc[w] = "update" /\ pc'[w] = "run") => ~Orphaned(row[w].id)]_vars

\* C14: every jobs row has run_at >= created_at, whether enqueue_job created
\* it from an accepted spec, fail_or_retry_job rescheduled it or cmd_dlq_retry
\* created it.
C14_RunAtNotBeforeCreatedAt ==
    \A i \in DOMAIN jobs : jobs[i].run_at >= jobs[i].created_at

\* Row i is pending and due at time t.
PendingDue(i, t) == jobs[i].state = "pending" /\ jobs[i].run_at <= t

\* Row i sorts no later than row j by priority, then created_at.
NotAfter(i, j) ==
    \/ jobs[i].priority < jobs[j].priority
    \/ jobs[i].priority = jobs[j].priority /\ jobs[i].created_at <= jobs[j].created_at

\* C15: next_job_claim returns a row that is pending with run_at <= now and
\* that no other such row precedes by (priority, created_at); it returns none
\* exactly when no row is pending with run_at <= now; and with one worker,
\* when a priority-100 row is claimed, a runnable priority-1 job enqueued at
\* the same time is already completed.
C15_ClaimsMinimalRow ==
    /\ [][\A w \in Workers :
            (pc[w] = "update" /\ pc'[w] = "run") =>
                /\ row[w].id \in DOMAIN jobs
                /\ jobs[row[w].id] = row[w]
                /\ PendingDue(row[w].id, cnow[w])
                /\ jobs[row[w].id].run_at <= now
                /\ \A j \in DOMAIN jobs : PendingDue(j, cnow[w]) => NotAfter(row[w].id, j)]_vars
    /\ [][\A w \in Workers :
            /\ (pc[w] = "select" /\ pc'[w] = "loop") =>
                    ~ \E j \in DOMAIN jobs : PendingDue(j, cnow[w])
            /\ (pc[w] = "select" /\ pc'[w] = "update") =>
                    \E j \in DOMAIN jobs : PendingDue(j, cnow[w])
            /\ (pc[w] = "update" /\ pc'[w] # pc[w]) => pc'[w] = "run"]_vars
    /\ [][\A w \in Workers :
            (pc[w] = "update" /\ pc'[w] = "run" /\ row[w].priority = 100) =>
                \A j \in DOMAIN jobs :
                    (/\ jobs[j].priority = 1
                     /\ jobs[j].command = "true"
                     /\ jobs[j].created_at = row[w].created_at
                     /\ jobs[j].run_at <= cnow[w]) => jobs[j].state = "completed"]_vars

\* The worker runs a priority-1 job while a priority-100 job enqueued at the
\* same time is pending and due.
C15_Witness ==
    /\ pc["w1"] = "run"
    /\ row["w1"].priority = 1
    /\ \E j \in DOMAIN jobs :
            /\ jobs[j].priority = 100
            /\ jobs[j].created_at = row["w1"].created_at
            /\ PendingDue(j, now)

\* C16: fail_or_retry_job called on a claimed row with attempts + 1 <=
\* max_retries reads backoff_base from the config as it is at the call, and
\* its UPDATE leaves the row pending with attempts + 1, no worker_id and
\* run_at = now + backoff_base ** (attempts + 1), now being the time of the
\* call; with backoff_base = 1 the delay is 1.
C16_RetryBackoff ==
    /\ [][\A w \in Workers :
            (pc[w] = "run" /\ pc'[w] = "retry") =>
                /\ row[w].attempts + 1 <= row[w].max_retries
                /\ base'[w] = config.backoff_base
                /\ cnow'[w] = now]_vars
    /\ [][\A w \in Workers :
            (pc[w] = "retry" /\ pc'[w] = "loop") =>
                /\ row[w].id \in DOMAIN jobs'
                /\ jobs'[row[w].id].state = "pending"
                /\ jobs'[row[w].id].attempts = row[w].attempts + 1
                /\ jobs'[row[w].id].worker_id = NULL
                /\ jobs'[row[w].id].run_at = cnow[w] + Pow(base[w], row[w].attempts + 1)
                /\ base[w] = 1 => jobs'[row[w].id].run_at = cnow[w] + 1]_vars

\* A second failure is about to be rescheduled with the backoff_base that
\* config set gave before the call, and the config has changed again since.
C16_Witness ==
    /\ pc["w1"] = "retry"
    /\ row["w1"].attempts + 1 = 2
    /\ base["w1"] = 1
    /\ config.backoff_base = 2

\* C17: a job enqueued with attempts = 0 whose command always fails has been
\* executed exactly max_retries + 1 times when it is moved to the DLQ (with
\* max_retries = 0 the first failure moves it, without a retry), every
\* execution is of a row the worker holds in jobs, and once the job is in the
\* DLQ and out of jobs no worker holds or executes it.
C17_ExecutedMaxRetriesPlusOne ==
    /\ [][\A w \in Workers :
            /\ (pc[w] = "dlq_insert" /\ pc'[w] = "dlq_delete") =>
                    runs[row[w].id] = row[w].max_retries + 1
            /\ (pc[w] = "run" /\ pc'[w] = "retry") =>
                    (row[w].max_retries > 0 /\ runs'[row[w].id] <= row[w].max_retries)
            /\ (pc[w] = "run" /\ pc'[w] # "run") =>
                    /\ row[w].id \in DOMAIN jobs
                    /\ jobs[row[w].id].state = "processing"
                    /\ jobs[row[w].id].worker_id = w
                    /\ runs'[row[w].id] = runs[row[w].id] + 1]_vars
    /\ [](\A i \in (DOMAIN dlq) \ (DOMAIN jobs) :
            \A w \in Workers : Alive(w) => row[w].id # i)

\* A job with max_retries = 1 is being moved to the DLQ after its second
\* execution.
C17_Witness ==
    \E w \in Workers :
        /\ pc[w] = "dlq_delete"
        /\ row[w].max_retries = 1
        /\ runs[row[w].id] = 2
        /\ row[w].id \in DOMAIN dlq

\* C18: the DLQ move is one atomic change: a committed step that puts a job
\* of the jobs table into dlq takes it out of jobs as well, so that no process
\* sees, and no death leaves, the id in both tables.
C18_DlqMoveAtomic ==
    [][\A i \in DOMAIN jobs :
            (i \notin DOMAIN dlq /\ i \in DOMAIN dlq') => i \notin DOMAIN jobs']_vars

\* C19: a worker whose store operation fails with "database is locked" drops
\* the iteration and is back at the top of its loop, alive, to poll again.
C19_LockedErrorSurvived ==
    [][\A w \in Workers : LockedError(w) => (pc'[w] = "loop" /\ Alive(w)')]_vars

\* C20: no enqueued job is lost.  Ids enter jobs and dlq only through a
\* successful enqueue, so the claim is that no step, of a whole command or of
\* one statement of it, takes an id out of both tables.
C20_NoJobLost ==
    [][((DOMAIN jobs) \cup (DOMAIN dlq)) \subseteq ((DOMAIN jobs') \cup (DOMAIN dlq'))]_vars

====
